---- MODULE Spec2Model ----
(***************************************************************************)
(* Model of src/modules/loading.py (MeteoSwiss loader): the population     *)
(* weights of the station registry, the selection of the catalog files of  *)
(* a station, the fetch and concatenation of these files, and the merge    *)
(* of the per-station tables with the weighted global table.               *)
(*                                                                         *)
(* Python floats are modelled as exact rationals <<num, den>> in lowest    *)
(* terms; a missing dictionary key or a missing value is the empty tuple.  *)
(***************************************************************************)
EXTENDS Integers, Sequences, FiniteSets, TLC

VARIABLES
    station_to_canton,  \* the registry: sequence of station records (dict order)
    config,             \* [freq, start_date, end_date, global_meteo]
    pc,                 \* position of the running call
    raised,             \* "none", or the exception that left the call
    nCalls,             \* completed calls of compute_station_weights
    netCalls,           \* requests.get calls made so far
    meteo,              \* load_meteo_file: station index -> table (sequence, in loop order)
    data,               \* the table returned by the call
    assets,             \* download_meteo_file: the catalog keys of the station, in order
    fetched,            \* concat_meteo_items: what the fetch of each file gives, in order
    selected            \* download_meteo_file: the selected keys, in catalog order

vars == <<station_to_canton, config, pc, raised, nCalls, netCalls, meteo, data,
          assets, fetched, selected>>

(***************************************************************************)
(* Bounds of the model                                                     *)
(***************************************************************************)
MaxStations == 2
MaxCantons == 2
MaxPop == 2
MaxCalls == 2
MaxInstants == 3
MaxFiles == 2
MaxRows == 2
MaxAssets == 2
MaxYears == 2

(***************************************************************************)
(* Missing keys / values, and exact rationals                              *)
(***************************************************************************)
Absent == <<>>
Has(f) == f # <<>>

RECURSIVE GCD(_, _)
GCD(a, b) == IF b = 0 THEN a ELSE GCD(b, a % b)

Rat(n, d) == LET g == GCD(n, d) IN <<n \div g, d \div g>>
RatMul(x, y) == Rat(x[1] * y[1], x[2] * y[2])
RatAdd(x, y) == Rat(x[1] * y[2] + y[1] * x[2], x[2] * y[2])
RatOfInt(n) == <<n, 1>>

(***************************************************************************)
(* The registry                                                            *)
(***************************************************************************)
StationCodes == <<"A", "B", "C", "D", "E">>
Cantons == 1..MaxCantons

\* One entry of station_to_canton. 'population' and 'canton_pop' are <<n>>
\* or Absent; 'weight' is Absent until compute_station_weights writes it.
StationInfo(i, c, p, cp) ==
    [station_id |-> StationCodes[i], canton |-> c, population |-> p,
     canton_pop |-> cp, weight |-> Absent]

OptPop == {Absent} \cup {<<n>> : n \in 1..MaxPop}
OptCantonPop == {Absent} \cup {<<n>> : n \in 0..MaxPop}

\* A registry of n stations whose stations of one canton share the canton's
\* total: station i in canton cs[i] with local population ps[i].
Registry(n, cs, ps, cps) == [i \in 1..n |-> StationInfo(i, cs[i], ps[i], cps[cs[i]])]

(***************************************************************************)
(* compute_station_weights                                                 *)
(***************************************************************************)
\* First loop: cantons[canton]['weight'] = canton_pop of the first station of
\* the canton, tt_ch_pop the sum over the distinct cantons.
RECURSIVE CantonTotals(_, _, _, _)
CantonTotals(reg, i, cantons, tt_ch_pop) ==
    IF i > Len(reg) THEN [err |-> "none", cantons |-> cantons, tt_ch_pop |-> tt_ch_pop]
    ELSE LET info == reg[i] IN
         IF info.canton \in DOMAIN cantons
         THEN CantonTotals(reg, i + 1, cantons, tt_ch_pop)
         ELSE IF ~Has(info.canton_pop)
         THEN [err |-> "KeyError", cantons |-> cantons, tt_ch_pop |-> tt_ch_pop]
         ELSE CantonTotals(reg, i + 1,
                           cantons @@ (info.canton :> info.canton_pop[1]),
                           tt_ch_pop + info.canton_pop[1])

\* Second loop: cantons[canton]['weight'] = pop / tt_ch_pop.
NormalizeCantons(cantons, tt_ch_pop) ==
    IF DOMAIN cantons = {} THEN [err |-> "none", cantons |-> cantons]
    ELSE IF tt_ch_pop = 0 THEN [err |-> "ZeroDivisionError", cantons |-> cantons]
    ELSE [err |-> "none",
          cantons |-> [c \in DOMAIN cantons |-> Rat(cantons[c], tt_ch_pop)]]

\* Inner loop: the populations reported by the stations of one canton.
RECURSIVE canton_tt_pop(_, _, _)
canton_tt_pop(reg, canton, j) ==
    IF j > Len(reg) THEN 0
    ELSE (IF reg[j].canton = canton /\ Has(reg[j].population)
          THEN reg[j].population[1] ELSE 0)
         + canton_tt_pop(reg, canton, j + 1)

\* The local weight of a station that reports no population and whose
\* canton reports none either.
LocalWeightNoPop(reg, i) == RatOfInt(1)

\* StationWeights with the weight multiplied into the stored one
\* (station['weight'] *= ... once the key exists) instead of assigned.
RECURSIVE StationWeightsAccumulating(_, _, _)
StationWeightsAccumulating(reg, cantons, i) ==
    IF i > Len(reg) THEN [err |-> "none", reg |-> reg]
    ELSE LET info == reg[i]
             tt == canton_tt_pop(reg, info.canton, 1)
         IN  IF tt # 0 /\ ~Has(info.population)
             THEN [err |-> "KeyError", reg |-> reg]
             ELSE LET weight == IF tt = 0 THEN LocalWeightNoPop(reg, i)
                                ELSE Rat(info.population[1], tt)
                      w == RatMul(weight, cantons[info.canton])
                      acc == IF Has(info.weight) THEN RatMul(info.weight, w) ELSE w
                  IN  StationWeightsAccumulating([reg EXCEPT ![i].weight = acc],
                                                 cantons, i + 1)

\* Third loop, station i onwards, writing the registry in place.
RECURSIVE StationWeights(_, _, _)
StationWeights(reg, cantons, i) ==
    IF i > Len(reg) THEN [err |-> "none", reg |-> reg]
    ELSE LET info == reg[i]
             tt == canton_tt_pop(reg, info.canton, 1)
         IN  IF tt # 0 /\ ~Has(info.population)
             THEN [err |-> "KeyError", reg |-> reg]
             ELSE LET weight == IF tt = 0 THEN LocalWeightNoPop(reg, i)
                                ELSE Rat(info.population[1], tt)
                      w == RatMul(weight, cantons[info.canton])
                  IN  StationWeights([reg EXCEPT ![i].weight = w], cantons, i + 1)

\* The whole function: the exception it leaves with, and the registry as the
\* call leaves it (the global dictionary is written in place).
compute_station_weights(reg) ==
    LET t == CantonTotals(reg, 1, <<>>, 0) IN
    IF t.err # "none" THEN [err |-> t.err, reg |-> reg]
    ELSE LET n == NormalizeCantons(t.cantons, t.tt_ch_pop) IN
         IF n.err # "none" THEN [err |-> n.err, reg |-> reg]
         ELSE StationWeights(reg, n.cantons, 1)

(***************************************************************************)
(* Timestamps                                                              *)
(***************************************************************************)
\* A parsed timestamp is the number of hours on a fixed calendar grid.
Timestamp(Y, M, D, h) == ((Y * 12 + (M - 1)) * 31 + (D - 1)) * 24 + h

\* The instants the modelled files report: 2020-03-01 14:00, 2020-03-01
\* 15:00, 2021-03-01 14:00, ...
Instant(k) == [Y |-> 2020 + ((k - 1) \div 2), M |-> 3, D |-> 1, h |-> 14 + ((k - 1) % 2)]
Instants == {Instant(k) : k \in 1..MaxInstants}
TimeOf(i) == Timestamp(i.Y, i.M, i.D, i.h)

\* The text of a reference_timestamp cell: its fields in the order they are
\* written. "iso" is 2020-03-01T15:00:00, "dmy" is 01.03.2020 14:00, "bad" is
\* text in neither format, "nan" an empty cell (read_csv reads it as NaN).
IsoText(i) == [fmt |-> "iso", f |-> <<i.Y, i.M, i.D, i.h>>]
DmyText(i) == [fmt |-> "dmy", f |-> <<i.D, i.M, i.Y, i.h>>]
BadText == [fmt |-> "bad", f |-> <<>>]
NanText == [fmt |-> "nan", f |-> <<>>]
TsTexts == {IsoText(i) : i \in Instants} \cup {DmyText(i) : i \in Instants}
              \cup {BadText, NanText}

\* pd.to_datetime(cell, format=...): NaT for an empty cell, the timestamp when
\* the text is in the format, a ValueError otherwise.
NaT == <<>>
Matches(text, format) == text.fmt = "nan" \/ text.fmt = format
StrpIso(text) ==
    IF text.fmt = "nan" THEN NaT
    ELSE <<Timestamp(text.f[1], text.f[2], text.f[3], text.f[4])>>
StrpDmy(text) ==
    IF text.fmt = "nan" THEN NaT
    ELSE <<Timestamp(text.f[3], text.f[2], text.f[1], text.f[4])>>

(***************************************************************************)
(* Tables                                                                  *)
(***************************************************************************)
\* A table (DataFrame): its column names in order and its rows in order; a
\* row is its index value t and its cells c (column -> <<value>> or NaN).
NaN == <<>>
EmptyFrame == [columns |-> <<>>, rows |-> <<>>]
\* DataFrame.empty: no row or no column.
IsEmpty(df) == Len(df.columns) = 0 \/ Len(df.rows) = 0

Range(s) == {s[i] : i \in 1..Len(s)}

RECURSIVE SelectSeq2(_, _, _)
SelectSeq2(s, P(_), i) ==
    IF i > Len(s) THEN <<>>
    ELSE (IF P(s[i]) THEN <<s[i]>> ELSE <<>>) \o SelectSeq2(s, P, i + 1)

\* s followed by the elements of t that s lacks, in t's order.
RECURSIVE UnionSeq(_, _)
UnionSeq(s, t) ==
    IF t = <<>> THEN s
    ELSE UnionSeq(IF t[1] \in Range(s) THEN s ELSE Append(s, t[1]), Tail(t))

(***************************************************************************)
(* concat_meteo_items                                                      *)
(***************************************************************************)
\* The module's variables dictionary, in its order (two of its entries).
variables == << <<"tre200h0", "air_temperature">>, <<"rre150h0", "rainfall">> >>

\* What requests.get + read_csv give for one file: a failure (HTTP error,
\* timeout, unreadable text), or a csv: its header (a set of column names)
\* and its rows, each its reference_timestamp text and the value v that its
\* data cells hold (NaN: the cells are empty).
Failed == [ok |-> FALSE, header |-> {}, rows |-> <<>>]
Csv(header, rows) == [ok |-> TRUE, header |-> header, rows |-> rows]

\* Lines 437-441: keep reference_timestamp and the known variables, in the
\* dictionary's order, and rename them. KeyError without reference_timestamp.
keep_cols(header) ==
    SelectSeq2([i \in 1..Len(variables) |-> variables[i]],
               LAMBDA v : v[1] \in header, 1)

ReadFile(file) ==
    IF ~file.ok \/ "reference_timestamp" \notin file.header
    THEN <<>>
    ELSE LET kept == keep_cols(file.header)
             cols == [i \in 1..Len(kept) |-> kept[i][2]]
         IN  << [columns |-> cols,
                 rows |-> [r \in 1..Len(file.rows) |->
                             [reference_timestamp |-> file.rows[r].reference_timestamp,
                              c |-> [col \in Range(cols) |-> file.rows[r].v]]]] >>

\* all_data with the try around the whole loop: the first file that fails
\* ends the loop.
RECURSIVE all_dataUntilFailure(_, _)
all_dataUntilFailure(files, i) ==
    IF i > Len(files) \/ ReadFile(files[i]) = <<>> THEN <<>>
    ELSE ReadFile(files[i]) \o all_dataUntilFailure(files, i + 1)

\* Lines 428-446: the frames of the files that could be fetched and read.
RECURSIVE all_data(_, _)
all_data(files, i) ==
    IF i > Len(files) THEN <<>>
    ELSE ReadFile(files[i]) \o all_data(files, i + 1)

\* Line 454: pd.concat(all_data, ignore_index=True): the rows in list order,
\* over the union of the columns, a cell a frame lacks being NaN.
RECURSIVE ConcatColumns(_, _)
ConcatColumns(frames, i) ==
    IF i > Len(frames) THEN <<>>
    ELSE UnionSeq(frames[i].columns, ConcatColumns(frames, i + 1))

RECURSIVE ConcatRows(_, _, _)
ConcatRows(frames, cols, i) ==
    IF i > Len(frames) THEN <<>>
    ELSE [r \in 1..Len(frames[i].rows) |->
            [reference_timestamp |-> frames[i].rows[r].reference_timestamp,
             c |-> [col \in cols |->
                      IF col \in DOMAIN frames[i].rows[r].c
                      THEN frames[i].rows[r].c[col] ELSE NaN]]]
         \o ConcatRows(frames, cols, i + 1)

\* Lines 456-463: the whole column in the ISO format, and when that raises,
\* the whole column in the day-first format.
to_datetime(rows) ==
    IF \A r \in 1..Len(rows) : Matches(rows[r].reference_timestamp, "iso")
    THEN [err |-> "none",
          t |-> [r \in 1..Len(rows) |-> StrpIso(rows[r].reference_timestamp)]]
    ELSE IF \A r \in 1..Len(rows) : Matches(rows[r].reference_timestamp, "dmy")
    THEN [err |-> "none",
          t |-> [r \in 1..Len(rows) |-> StrpDmy(rows[r].reference_timestamp)]]
    ELSE [err |-> "ValueError", t |-> <<>>]

\* Lines 464-467: drop the rows whose timestamp is NaT, index by timestamp.
RECURSIVE IndexRows(_, _, _)
IndexRows(rows, t, r) ==
    IF r > Len(rows) THEN <<>>
    ELSE (IF t[r] = NaT THEN <<>> ELSE << [t |-> t[r][1], c |-> rows[r].c] >>)
         \o IndexRows(rows, t, r + 1)

\* The whole function on the files of one station, in dictionary order.
concat_meteo_items(files) ==
    LET frames == all_data(files, 1) IN
    IF frames = <<>> THEN [err |-> "none", df |-> EmptyFrame]
    ELSE LET cols == ConcatColumns(frames, 1)
             rows == ConcatRows(frames, Range(cols), 1)
             parsed == to_datetime(rows)
         IN  IF parsed.err # "none" THEN [err |-> parsed.err, df |-> EmptyFrame]
             ELSE [err |-> "none",
                   df |-> [columns |-> cols, rows |-> IndexRows(rows, parsed.t, 1)]]

(***************************************************************************)
(* File selection of download_meteo_file                                   *)
(***************************************************************************)
\* A catalog key such as ogd-smn_abo_h_historical_2010-2019.csv: its
\* segments between underscores but for the last one, the "-"-separated parts
\* of the last segment without its extension, and the extension. A part is
\* a number (int() reads it) or a word (int() raises ValueError).
Num(n) == [num |-> TRUE, n |-> n, w |-> ""]
Word(w) == [num |-> FALSE, n |-> 0, w |-> w]
Key(segs, last, ext) == [segs |-> segs, last |-> last, ext |-> ext]

\* f"_{freq}_" in k: a segment with an underscore on both sides.
HasFreqToken(k, freq) == \E i \in 2..Len(k.segs) : k.segs[i] = freq
\* k.endswith(".csv")
EndsWithCsv(k) == k.ext = ".csv"
\* "historical_" in k
HasHistorical(k) == \E i \in 1..Len(k.segs) : k.segs[i] = "historical"

\* Lines 369-372: the keys of the requested frequency, in catalog order.
relevant_files(keys, freq) ==
    SelectSeq2(keys, LAMBDA k : HasFreqToken(k, freq) /\ EndsWithCsv(k), 1)

\* A date 'YYYY-MM-DD' is <<Y, M, D>>; date[:4] is its year.
YearOf(date) == date[1]

\* Lines 381-386: [err, in]. start, end = period.split("-") raises ValueError
\* unless there are two parts; int(end) is only evaluated when the first
\* comparison holds.
file_in_range(k, start_date, end_date) ==
    IF ~HasHistorical(k) THEN [err |-> "none", in |-> FALSE]
    ELSE IF Len(k.last) # 2 THEN [err |-> "ValueError", in |-> FALSE]
    ELSE IF ~k.last[1].num THEN [err |-> "ValueError", in |-> FALSE]
    ELSE IF ~(k.last[1].n <= YearOf(end_date)) THEN [err |-> "none", in |-> FALSE]
    ELSE IF ~k.last[2].num THEN [err |-> "ValueError", in |-> FALSE]
    ELSE [err |-> "none", in |-> k.last[2].n >= YearOf(start_date)]

\* Line 388: the comprehension stops at the first key that raises.
RECURSIVE selected_files(_, _, _, _)
selected_files(keys, start_date, end_date, i) ==
    IF i > Len(keys) THEN [err |-> "none", files |-> <<>>]
    ELSE LET r == file_in_range(keys[i], start_date, end_date) IN
         IF r.err # "none" THEN [err |-> r.err, files |-> <<>>]
         ELSE LET rest == selected_files(keys, start_date, end_date, i + 1) IN
              IF rest.err # "none" THEN rest
              ELSE [err |-> "none",
                    files |-> (IF r.in THEN <<keys[i]>> ELSE <<>>) \o rest.files]

\* Lines 368-388 together.
SelectFiles(keys, freq, start_date, end_date) ==
    selected_files(relevant_files(keys, freq), start_date, end_date, 1)

(***************************************************************************)
(* download_meteo_file                                                     *)
(***************************************************************************)
StartOfDay(date) == Timestamp(date[1], date[2], date[3], 0)
EndOfDay(date) == Timestamp(date[1], date[2], date[3], 23)

IsMonotonic(rows) == \A r \in 1..(Len(rows) - 1) : rows[r].t <= rows[r + 1].t

\* Line 397: full_df.loc[start_date:end_date] with both bounds strings. On an
\* increasing index: the rows from the start of start_date to the end of
\* end_date. On any other index the bounds are looked up as labels: pandas 2
\* raises KeyError (the end of a day is no label of the index), pandas 1
\* warns (FutureWarning, ignored by line 15) and keeps the rows in range.
LocSlice(df, start_date, end_date, pandas2) ==
    IF ~IsMonotonic(df.rows) /\ pandas2 THEN [err |-> "KeyError", df |-> EmptyFrame]
    ELSE [err |-> "none",
          df |-> [columns |-> df.columns,
                  rows |-> SelectSeq2(df.rows,
                              LAMBDA row : /\ StartOfDay(start_date) <= row.t
                                           /\ row.t <= EndOfDay(end_date), 1)]]

\* What the network and the installed pandas give one call: the outcome of the
\* catalog search ("error": requests raises or the status is an error;
\* "malformed": the body is no JSON or the item has no assets; "empty": no
\* feature; "ok"), the asset keys of the first item in order, what the fetch
\* of each asset gives, and the pandas major version.
Remote(search, keys, content, pandas2) ==
    [search |-> search, keys |-> keys, content |-> content, pandas2 |-> pandas2]

\* The content fetched for the keys of `files`, in their order.
ContentOf(remote, files) ==
    [i \in 1..Len(files) |->
        remote.content[CHOOSE j \in 1..Len(remote.keys) : remote.keys[j] = files[i]]]

\* The whole function: [err, df, calls] with calls the requests.get made.
download_meteo_file(remote, start_date, end_date, freq) ==
    IF remote.search = "error"
    THEN [err |-> "RequestException", df |-> EmptyFrame, calls |-> 1]
    ELSE IF remote.search = "malformed"
    THEN [err |-> "ValueError", df |-> EmptyFrame, calls |-> 1]
    ELSE IF remote.search = "empty" THEN [err |-> "none", df |-> EmptyFrame, calls |-> 1]
    ELSE LET sel == SelectFiles(remote.keys, freq, start_date, end_date) IN
         IF sel.err # "none" THEN [err |-> sel.err, df |-> EmptyFrame, calls |-> 1]
         ELSE LET full == concat_meteo_items(ContentOf(remote, sel.files))
                  calls == 1 + Len(sel.files)
              IN  IF full.err # "none"
                  THEN [err |-> full.err, df |-> EmptyFrame, calls |-> calls]
                  ELSE IF IsEmpty(full.df)
                  THEN [err |-> "none", df |-> full.df, calls |-> calls]
                  ELSE LET cut == LocSlice(full.df, start_date, end_date, remote.pandas2)
                       IN  [err |-> cut.err, df |-> cut.df, calls |-> calls]

(***************************************************************************)
(* The global table and concat_stations_horizontal                         *)
(***************************************************************************)
\* The frames below are indexed by timestamps that are unique within a
\* frame; the rows of a combined table are listed by timestamp.
RECURSIVE SortSet(_)
SortSet(S) ==
    IF S = {} THEN <<>>
    ELSE LET m == CHOOSE x \in S : \A y \in S : x <= y IN <<m>> \o SortSet(S \ {m})

TimesOf(df) == {df.rows[r].t : r \in 1..Len(df.rows)}
AllTimes(frames) == UNION {TimesOf(frames[i]) : i \in 1..Len(frames)}

\* The cell of df at timestamp t in column col: NaN when df lacks either.
CellAt(df, t, col) ==
    IF col \in Range(df.columns) /\ t \in TimesOf(df)
    THEN df.rows[CHOOSE r \in 1..Len(df.rows) : df.rows[r].t = t].c[col]
    ELSE NaN

\* Line 246: meteo[station_id] * station['weight'].
Scale(df, weight) ==
    [columns |-> df.columns,
     rows |-> [r \in 1..Len(df.rows) |->
                 [t |-> df.rows[r].t,
                  c |-> [col \in DOMAIN df.rows[r].c |->
                           IF df.rows[r].c[col] = NaN THEN NaN
                           ELSE RatMul(RatOfInt(df.rows[r].c[col][1]), weight)]]]]

\* GroupSum as sum(skipna=False): NaN as soon as one frame has no value.
RECURSIVE GroupSumNoSkip(_, _, _, _)
GroupSumNoSkip(frames, t, col, i) ==
    IF i > Len(frames) THEN RatOfInt(0)
    ELSE LET cell == CellAt(frames[i], t, col)
             rest == GroupSumNoSkip(frames, t, col, i + 1)
         IN  IF cell = NaN \/ rest = NaN THEN NaN ELSE RatAdd(cell, rest)

\* groupby(level=0, axis=1).sum() at one timestamp and one column name: the
\* sum of the cells that are not NaN, 0 when there is none.
RECURSIVE GroupSum(_, _, _, _)
GroupSum(frames, t, col, i) ==
    IF i > Len(frames) THEN RatOfInt(0)
    ELSE LET cell == CellAt(frames[i], t, col)
             rest == GroupSum(frames, t, col, i + 1)
         IN  IF cell = NaN THEN rest ELSE RatAdd(cell, rest)

\* The renamed variables in sorted order (groupby sorts its keys; the
\* dictionary's two names are in alphabetical order).
SortedNames == [i \in 1..Len(variables) |-> variables[i][2]]

\* Line 247: pd.concat(meteo_global.values(), axis=1).groupby(level=0,
\* axis=1).sum(). pd.concat raises ValueError on an empty list.
GlobalFrame(meteo_global) ==
    IF meteo_global = <<>> THEN [err |-> "ValueError", df |-> EmptyFrame]
    ELSE LET names == UNION {Range(meteo_global[i].columns) : i \in 1..Len(meteo_global)}
             cols == SelectSeq2(SortedNames, LAMBDA n : n \in names, 1)
             ts == SortSet(AllTimes(meteo_global))
         IN  [err |-> "none",
              df |-> [columns |-> cols,
                      rows |-> [k \in 1..Len(ts) |->
                                  [t |-> ts[k],
                                   c |-> [col \in Range(cols) |->
                                            GroupSum(meteo_global, ts[k], col, 1)]]]]]

\* Lines 500-507: the frames that are not empty, each column suffixed with
\* the key of its frame (the column f"{col}_{station_id}" is <<col, station_id>>).
RECURSIVE dfs_to_concat(_, _)
dfs_to_concat(meteo_dict, i) ==
    IF i > Len(meteo_dict) THEN <<>>
    ELSE LET df == meteo_dict[i].df
             id == meteo_dict[i].station_id
             df_copy ==
                 [columns |-> [j \in 1..Len(df.columns) |-> <<df.columns[j], id>>],
                  rows |-> [r \in 1..Len(df.rows) |->
                              [t |-> df.rows[r].t,
                               c |-> [col \in {<<n, id>> : n \in Range(df.columns)} |->
                                        df.rows[r].c[col[1]]]]]]
         IN  (IF IsEmpty(df) THEN <<>> ELSE <<df_copy>>) \o dfs_to_concat(meteo_dict, i + 1)

RECURSIVE FlatColumns(_, _)
FlatColumns(frames, i) ==
    IF i > Len(frames) THEN <<>> ELSE frames[i].columns \o FlatColumns(frames, i + 1)

\* Lines 509-515: pd.concat(dfs_to_concat, axis=1), the outer join on the index.
concat_stations_horizontal(meteo_dict) ==
    LET frames == dfs_to_concat(meteo_dict, 1) IN
    IF frames = <<>> THEN EmptyFrame
    ELSE LET cols == FlatColumns(frames, 1)
             ts == SortSet(AllTimes(frames))
         IN  [columns |-> cols,
              rows |-> [k \in 1..Len(ts) |->
                          [t |-> ts[k],
                           c |-> [col \in Range(cols) |->
                                    CellAt(frames[CHOOSE i \in 1..Len(frames) :
                                                    col \in Range(frames[i].columns)],
                                           ts[k], col)]]]]

\* Line 254: data.dropna(axis=1, how='all').
dropna_columns(df) ==
    LET kept == SelectSeq2(df.columns,
                    LAMBDA col : \E r \in 1..Len(df.rows) : df.rows[r].c[col] # NaN, 1)
    IN  [columns |-> kept,
         rows |-> [r \in 1..Len(df.rows) |->
                     [t |-> df.rows[r].t,
                      c |-> [col \in Range(kept) |-> df.rows[r].c[col]]]]]

\* Lines 245-255 once every station is downloaded: [err, data]. `tables` are
\* the stations' frames in registry order.
MergeStations(reg, tables, global_meteo) ==
    LET meteo_global == IF global_meteo
                        THEN [i \in 1..Len(tables) |-> Scale(tables[i], reg[i].weight)]
                        ELSE <<>>
        g == GlobalFrame(meteo_global)
    IN  IF g.err # "none" THEN [err |-> g.err, data |-> EmptyFrame]
        ELSE LET meteo_dict ==
                     [i \in 1..Len(tables) |->
                         [station_id |-> reg[i].station_id, df |-> tables[i]]]
                     \o << [station_id |-> "global", df |-> g.df] >>
             IN  [err |-> "none",
                  data |-> dropna_columns(concat_stations_horizontal(meteo_dict))]

(***************************************************************************)
(* Values every specification starts from for the parts it does not use    *)
(***************************************************************************)
NoConfig == [freq |-> "h", start_date |-> <<>>, end_date |-> <<>>, global_meteo |-> FALSE]

(***************************************************************************)
(* SpecW: calls of compute_station_weights on a registry                   *)
(***************************************************************************)
InitW ==
    /\ \E n \in 0..MaxStations :
         \E cs \in [1..n -> Cantons], ps \in [1..n -> OptPop],
            cps \in [Cantons -> OptCantonPop] :
              station_to_canton = Registry(n, cs, ps, cps)
    /\ config = NoConfig
    /\ pc = "idle"
    /\ raised = "none"
    /\ nCalls = 0
    /\ netCalls = 0
    /\ meteo = <<>>
    /\ data = EmptyFrame
    /\ assets = <<>>
    /\ fetched = <<>>
    /\ selected = <<>>

CallWeights ==
    /\ pc = "idle"
    /\ nCalls < MaxCalls
    /\ LET r == compute_station_weights(station_to_canton) IN
         /\ station_to_canton' = r.reg
         /\ raised' = r.err
    /\ nCalls' = nCalls + 1
    /\ UNCHANGED <<config, pc, netCalls, meteo, data, assets, fetched, selected>>

NextW == CallWeights

SpecW == InitW /\ [][NextW]_vars

(***************************************************************************)
(* Claims on the weights                                                   *)
(***************************************************************************)
StationsOf(reg, c) == {i \in 1..Len(reg) : reg[i].canton = c}
CantonsOf(reg) == {reg[i].canton : i \in 1..Len(reg)}
CantonPopOf(reg, c) == reg[CHOOSE i \in StationsOf(reg, c) : TRUE].canton_pop

\* A valid registry: not empty, every region with a positive parent total.
ValidRegistry(reg) ==
    /\ Len(reg) > 0
    /\ \A c \in CantonsOf(reg) : Has(CantonPopOf(reg, c)) /\ CantonPopOf(reg, c)[1] > 0

RECURSIVE SumWeights(_, _)
SumWeights(reg, i) ==
    IF i > Len(reg) THEN RatOfInt(0)
    ELSE RatAdd(reg[i].weight, SumWeights(reg, i + 1))

AllWeighted(reg) == \A i \in 1..Len(reg) : Has(reg[i].weight)

\* C1: for every valid registry, after compute_station_weights every station
\* has a weight and the weights of all stations sum to 1.
C1_WeightsSumToOne ==
    (nCalls >= 1 /\ ValidRegistry(station_to_canton)) =>
        /\ raised = "none"
        /\ AllWeighted(station_to_canton)
        /\ SumWeights(station_to_canton, 1) = RatOfInt(1)

RECURSIVE SumSet(_, _)
SumSet(f, S) ==
    IF S = {} THEN 0
    ELSE LET x == CHOOSE x \in S : TRUE IN f[x] + SumSet(f, S \ {x})

\* The region weight of the claim: the region's parent total over the sum of
\* the parent totals of the distinct regions.
RegionWeight(reg, c) ==
    Rat(CantonPopOf(reg, c)[1],
        SumSet([d \in CantonsOf(reg) |-> CantonPopOf(reg, d)[1]], CantonsOf(reg)))

NoPopRegion(reg, c) == \A i \in StationsOf(reg, c) : ~Has(reg[i].population)

\* C2: in a region where no station reports a local population, every
\* station gets region weight / (number of stations of the region).
C2_EqualSplitInNoPopRegion ==
    (nCalls >= 1 /\ ValidRegistry(station_to_canton)) =>
        \A c \in CantonsOf(station_to_canton) :
            NoPopRegion(station_to_canton, c) =>
                \A i \in StationsOf(station_to_canton, c) :
                    /\ Has(station_to_canton[i].weight)
                    /\ station_to_canton[i].weight =
                         RatMul(RegionWeight(station_to_canton, c),
                                Rat(1, Cardinality(StationsOf(station_to_canton, c))))

\* C8: a call of compute_station_weights changes no field of the registry
\* but weight, and a call on a registry that a previous call augmented
\* without raising returns without raising and leaves every weight as it was.
C8_Idempotent ==
    [][nCalls' = nCalls + 1 =>
          /\ Len(station_to_canton') = Len(station_to_canton)
          /\ \A i \in 1..Len(station_to_canton) :
                [station_to_canton'[i] EXCEPT !.weight = Absent]
                   = [station_to_canton[i] EXCEPT !.weight = Absent]
          /\ (nCalls >= 1 /\ raised = "none") =>
                (raised' = "none" /\ station_to_canton' = station_to_canton)]_vars

\* C8 witness: a second call has returned on a registry of two stations
\* with different weights.
C8_Witness ==
    /\ nCalls = 2 /\ raised = "none"
    /\ Len(station_to_canton) = 2
    /\ AllWeighted(station_to_canton)
    /\ station_to_canton[1].weight # station_to_canton[2].weight

(***************************************************************************)
(* SpecCat: concat_meteo_items on the files of one station                 *)
(***************************************************************************)
\* The headers of the modelled files: timestamp and one variable, timestamp
\* and both variables plus a column the dictionary does not know, and a file
\* without the timestamp column.
Headers == { {"reference_timestamp", "tre200h0"},
             {"reference_timestamp", "tre200h0", "rre150h0", "other"},
             {"tre200h0"} }

\* The row counts of n files holding at most `total` rows together.
RECURSIVE RowCounts(_, _)
RowCounts(n, total) ==
    IF n = 0 THEN {<<>>}
    ELSE UNION { {<<k>> \o rest : rest \in RowCounts(n - 1, total - k)} : k \in 0..total }

RECURSIVE SumSeq(_)
SumSeq(s) == IF s = <<>> THEN 0 ELSE s[1] + SumSeq(Tail(s))

\* The files of one station: file i failed (and then without rows) or a
\* csv of header hs[i] with counts[i] rows, whose timestamp texts are the
\* next counts[i] texts of txt; every data cell of row r of file i holds the
\* number 10 * i + r, so that a row is told by its value.
FileList(ok, hs, counts, txt) ==
    [i \in DOMAIN ok |->
       IF ok[i]
       THEN Csv(hs[i], [r \in 1..counts[i] |->
                          [reference_timestamp |-> txt[SumSeq(SubSeq(counts, 1, i - 1)) + r],
                           v |-> <<10 * i + r>>]])
       ELSE Failed]

InitCat ==
    /\ \E n \in 0..MaxFiles :
         \E counts \in RowCounts(n, MaxRows) :
           \E ok \in [1..n -> BOOLEAN], hs \in [1..n -> Headers],
              txt \in [1..SumSeq(counts) -> TsTexts] :
                /\ \A i \in 1..n : ~ok[i] => counts[i] = 0
                /\ fetched = FileList(ok, hs, counts, txt)
    /\ station_to_canton = <<>>
    /\ config = NoConfig
    /\ pc = "idle"
    /\ raised = "none"
    /\ nCalls = 0
    /\ netCalls = 0
    /\ meteo = <<>>
    /\ data = EmptyFrame
    /\ assets = <<>>
    /\ selected = <<>>

\* One call of concat_meteo_items: one requests.get per file.
CallConcat ==
    /\ pc = "idle"
    /\ LET r == concat_meteo_items(fetched) IN
         /\ raised' = r.err
         /\ data' = r.df
         /\ pc' = IF r.err = "none" THEN "done" ELSE "raised"
    /\ netCalls' = netCalls + Len(fetched)
    /\ UNCHANGED <<station_to_canton, config, nCalls, meteo, assets, fetched, selected>>

NextCat == CallConcat

SpecCat == InitCat /\ [][NextCat]_vars

(***************************************************************************)
(* SpecSel: the file selection of download_meteo_file on one catalog       *)
(***************************************************************************)
Years == {2019 + k : k \in 0..MaxYears}

\* The last segments of the modelled keys: START-END, a single year, two
\* words, a number and a word, one word (recent.csv, now.csv).
Ranges == {<<Num(a), Num(b)>> : a \in Years, b \in Years}
Unranged == {<<Num(2020)>>, <<Word("to"), Word("date")>>, <<Num(2019), Word("now")>>,
             <<Word("recent")>>}

\* The keys of a catalog: the historical files of both frequencies, with or
\* without a well-formed period, and the files that are not historical.
Keys ==
    {Key(<<"ogd-smn", "abo", f, "historical">>, last, ".csv") :
        f \in {"h", "d"}, last \in Ranges \cup Unranged}
      \cup {Key(<<"ogd-smn", "abo", f>>, <<Word(w)>>, ext) :
              f \in {"h", "d"}, w \in {"recent", "now"}, ext \in {".csv", ".json"}}

Windows == {w \in Years \X Years : w[1] <= w[2]}

InitSel ==
    /\ \E n \in 0..MaxAssets :
         \E c \in [1..n -> Keys] :
            /\ \A i, j \in 1..n : i # j => c[i] # c[j]
            /\ assets = c
    /\ \E w \in Windows, f \in {"h", "d"} :
          config = [freq |-> f, start_date |-> <<w[1], 1, 1>>,
                    end_date |-> <<w[2], 12, 31>>, global_meteo |-> FALSE]
    /\ station_to_canton = <<>>
    /\ pc = "idle"
    /\ raised = "none"
    /\ nCalls = 0
    /\ netCalls = 0
    /\ meteo = <<>>
    /\ data = EmptyFrame
    /\ fetched = <<>>
    /\ selected = <<>>

\* Lines 368-388 on the assets of the station.
CallSelect ==
    /\ pc = "idle"
    /\ LET r == SelectFiles(assets, config.freq, config.start_date, config.end_date) IN
         /\ raised' = r.err
         /\ selected' = r.files
         /\ pc' = IF r.err = "none" THEN "done" ELSE "raised"
    /\ UNCHANGED <<station_to_canton, config, nCalls, netCalls, meteo, data, assets, fetched>>

NextSel == CallSelect

SpecSel == InitSel /\ [][NextSel]_vars

\* The years a key declares: its last segment is START-END, two numbers.
DeclaresRange(k) == Len(k.last) = 2 /\ k.last[1].num /\ k.last[2].num

\* C7: selection never fails and keeps, in catalog order, exactly the keys
\* that carry the frequency token and declare a year range START-END with
\* START <= end_date.year and END >= start_date.year.
C7_SelectsExactlyOverlapping ==
    pc # "idle" =>
        /\ raised = "none"
        /\ selected =
             SelectSeq2(assets,
                LAMBDA k : /\ HasFreqToken(k, config.freq)
                           /\ DeclaresRange(k)
                           /\ k.last[1].n <= YearOf(config.end_date)
                           /\ k.last[2].n >= YearOf(config.start_date), 1)

(***************************************************************************)
(* Spec: load_meteo_file                                                   *)
(***************************************************************************)
Station(i, canton, population, canton_pop) == StationInfo(i, canton, population, canton_pop)

\* The registries load_meteo_file is run on: two regions of totals 3 and 2
\* (weights 0.6 and 0.4); one region split by local population; one region
\* without local population; a single station; the empty registry; a region
\* whose total is zero beside a valid one; a region whose total is missing;
\* a single region whose total is zero.
LoadRegistries ==
    { << Station(1, 1, Absent, <<3>>), Station(2, 2, Absent, <<2>>) >>,
      << Station(1, 1, <<1>>, <<3>>), Station(2, 1, <<2>>, <<3>>) >>,
      << Station(1, 1, Absent, <<3>>), Station(2, 1, Absent, <<3>>) >>,
      << Station(1, 1, <<2>>, <<3>>) >>,
      << >>,
      << Station(1, 1, Absent, <<0>>), Station(2, 2, Absent, <<2>>) >>,
      << Station(1, 1, Absent, Absent), Station(2, 2, Absent, <<2>>) >>,
      << Station(1, 1, <<1>>, <<0>>) >> }

LoadConfigs ==
    { [freq |-> "h", start_date |-> <<2020, 1, 1>>, end_date |-> e, global_meteo |-> g] :
        e \in {<<2020, 12, 31>>, <<2021, 12, 31>>}, g \in BOOLEAN }

\* The files a station's catalog offers in this specification.
HistInRange == Key(<<"ogd-smn", "abo", "h", "historical">>, <<Num(2020), Num(2029)>>, ".csv")
HistBefore == Key(<<"ogd-smn", "abo", "h", "historical">>, <<Num(2010), Num(2019)>>, ".csv")
HistNoPeriod == Key(<<"ogd-smn", "abo", "h", "historical">>, <<Word("recent")>>, ".csv")
Recent == Key(<<"ogd-smn", "abo", "h">>, <<Word("recent")>>, ".csv")

\* The csv of station i: rows in time order, one per instant of `present`,
\* the data cells of the row of instant k holding 10 * i + k, or nothing
\* for the instants of `missing`.
StationCsv(i, header, present, missing) ==
    LET ks == SortSet(present) IN
    Csv(header, [r \in 1..Len(ks) |->
                   [reference_timestamp |-> IsoText(Instant(ks[r])),
                    v |-> IF ks[r] \in missing THEN NaN ELSE <<10 * i + ks[r]>>]])

LoadHeaders == { {"reference_timestamp", "tre200h0"},
                 {"reference_timestamp", "tre200h0", "rre150h0", "other"} }

\* What the network gives for station i: a search that fails or finds
\* nothing, a catalog without a file in range, a catalog with a malformed
\* historical key, and a catalog whose one file in range fails or is a csv
\* with at most one row without values. The rows of a file are in time
\* order, so the pandas version makes no difference to LocSlice here.
LoadRemotes(i) ==
    {Remote(s, <<>>, <<>>, TRUE) : s \in {"error", "malformed", "empty"}}
      \cup {Remote("ok", <<HistBefore, Recent>>, <<Failed, Failed>>, TRUE),
            Remote("ok", <<HistNoPeriod>>, <<Failed>>, TRUE)}
      \cup {Remote("ok", <<HistBefore, HistInRange>>, <<Failed, c>>, p2) :
              p2 \in BOOLEAN,
              c \in {Failed} \cup
                    UNION { {StationCsv(i, h, present, missing) :
                               h \in LoadHeaders,
                               missing \in {{}} \cup {{k} : k \in present}} :
                            present \in SUBSET (1..MaxInstants) } }

Init ==
    /\ station_to_canton \in LoadRegistries
    /\ config \in LoadConfigs
    /\ pc = "start"
    /\ raised = "none"
    /\ nCalls = 0
    /\ netCalls = 0
    /\ meteo = <<>>
    /\ data = EmptyFrame
    /\ assets = <<>>
    /\ fetched = <<>>
    /\ selected = <<>>

\* Line 236: station_to_canton = compute_station_weights().
Weights ==
    /\ pc = "start"
    /\ LET r == compute_station_weights(station_to_canton) IN
         /\ station_to_canton' = r.reg
         /\ raised' = r.err
         /\ pc' = IF r.err = "none" THEN "stations" ELSE "raised"
    /\ nCalls' = nCalls + 1
    /\ UNCHANGED <<config, netCalls, meteo, data, assets, fetched, selected>>

\* Lines 237-243, one iteration: the download of the next station.
Download ==
    /\ pc = "stations"
    /\ Len(meteo) < Len(station_to_canton)
    /\ \E remote \in LoadRemotes(Len(meteo) + 1) :
         LET r == download_meteo_file(remote, config.start_date, config.end_date, config.freq)
         IN  /\ netCalls' = netCalls + r.calls
             /\ raised' = r.err
             /\ pc' = IF r.err = "none" THEN "stations" ELSE "raised"
             /\ meteo' = IF r.err = "none" THEN Append(meteo, r.df) ELSE meteo
    /\ UNCHANGED <<station_to_canton, config, nCalls, data, assets, fetched, selected>>

\* Lines 245-255 after the last station: the global table, the merge, the
\* columns without any value dropped.
Merge ==
    /\ pc = "stations"
    /\ Len(meteo) = Len(station_to_canton)
    /\ LET r == MergeStations(station_to_canton, meteo, config.global_meteo) IN
         /\ raised' = r.err
         /\ data' = r.data
         /\ pc' = IF r.err = "none" THEN "done" ELSE "raised"
    /\ UNCHANGED <<station_to_canton, config, nCalls, netCalls, meteo, assets, fetched, selected>>

Next == Weights \/ Download \/ Merge

Spec == Init /\ [][Next]_vars

(***************************************************************************)
(* Claims on load_meteo_file                                               *)
(***************************************************************************)
\* Where a call that raised was: in the download of a station (the search
\* request is made and a station is left), or in the merge (every station
\* is downloaded).
RaisedInDownload ==
    pc = "raised" /\ netCalls > 0 /\ Len(meteo) < Len(station_to_canton)
RaisedInMerge == pc = "raised" /\ Len(meteo) = Len(station_to_canton)

\* C3: load_meteo_file never raises because the catalog search or a file
\* fetch of one station fails; the station is skipped and the loop goes on.
C3_NoRaiseForStationProblem == ~RaisedInDownload

\* C4: on an empty registry, or one with a region whose parent total is zero
\* or missing, compute_station_weights raises, and load_meteo_file ends
\* there, before any network call.
C4_InvalidRegistryFailsFast ==
    (pc # "start" /\ ~ValidRegistry(station_to_canton)) =>
        (pc = "raised" /\ raised # "none" /\ netCalls = 0 /\ meteo = <<>>)

IsGlobalColumn(col) == col[2] = "global"
GlobalColumns(df) == {col \in Range(df.columns) : IsGlobalColumn(col)}
StationColumns(df) == {col \in Range(df.columns) : ~IsGlobalColumn(col)}

\* C6: with the flag disabled the call on a valid registry does not fail in
\* the merge, and a returned table that has station columns has global
\* columns if and only if the flag is enabled.
C6_GlobalColumnsIffEnabled ==
    /\ (~config.global_meteo /\ ValidRegistry(station_to_canton)) => ~RaisedInMerge
    /\ pc = "done" =>
         /\ GlobalColumns(data) # {} => config.global_meteo
         /\ (StationColumns(data) # {} /\ config.global_meteo) => GlobalColumns(data) # {}

\* The stations that report a value of `name` at timestamp t.
Reporting(name, t) ==
    {i \in 1..Len(meteo) : CellAt(meteo[i], t, name) # NaN}

RECURSIVE WeightedSum(_, _, _)
WeightedSum(S, name, t) ==
    IF S = {} THEN RatOfInt(0)
    ELSE LET i == CHOOSE i \in S : TRUE IN
         RatAdd(Rat(station_to_canton[i].weight[1] * CellAt(meteo[i], t, name)[1],
                    station_to_canton[i].weight[2]),
                WeightedSum(S \ {i}, name, t))

\* The stations A and B of the claim: weights 0.6 and 0.4, one variable,
\* A at the first and second instant, B at the second and third.
T1 == TimeOf(Instant(1))
T2 == TimeOf(Instant(2))
T3 == TimeOf(Instant(3))
TwoStationCase ==
    /\ Len(station_to_canton) = 2 /\ Len(meteo) = 2
    /\ config.global_meteo
    /\ station_to_canton[1].weight = <<3, 5>>
    /\ station_to_canton[2].weight = <<2, 5>>
    /\ meteo[1].columns = <<"air_temperature">>
    /\ meteo[2].columns = <<"air_temperature">>
    /\ [r \in 1..Len(meteo[1].rows) |-> meteo[1].rows[r].t] = <<T1, T2>>
    /\ [r \in 1..Len(meteo[2].rows) |-> meteo[2].rows[r].t] = <<T2, T3>>
    /\ \A i \in 1..2 : \A r \in 1..2 : meteo[i].rows[r].c["air_temperature"] # NaN

\* C5: in a returned table every global cell is the sum of weight * value
\* over the stations that report the variable at that timestamp, without
\* renormalisation; for the stations A (0.6; t1, t2) and B (0.4; t2, t3) the
\* table has exactly the columns temp_A, temp_B, temp_global and the rows
\* t1, t2, t3, with 0.6 A[t1], 0.6 A[t2] + 0.4 B[t2] and 0.4 B[t3] as global.
C5_GlobalIsPartialWeightedSum ==
    pc = "done" =>
        /\ \A r \in 1..Len(data.rows) : \A col \in GlobalColumns(data) :
              data.rows[r].c[col] =
                 WeightedSum(Reporting(col[1], data.rows[r].t), col[1], data.rows[r].t)
        /\ TwoStationCase =>
              LET a == meteo[1].rows
                  b == meteo[2].rows
                  A == <<"air_temperature", "A">>
                  B == <<"air_temperature", "B">>
                  G == <<"air_temperature", "global">>
                  val(x) == x.c["air_temperature"][1]
              IN  /\ data.columns = <<A, B, G>>
                  /\ [r \in 1..Len(data.rows) |-> data.rows[r].t] = <<T1, T2, T3>>
                  /\ data.rows[1].c = (A :> <<val(a[1])>> @@ B :> NaN
                                         @@ G :> Rat(3 * val(a[1]), 5))
                  /\ data.rows[2].c = (A :> <<val(a[2])>> @@ B :> <<val(b[1])>>
                                         @@ G :> Rat(3 * val(a[2]) + 2 * val(b[1]), 5))
                  /\ data.rows[3].c = (A :> NaN @@ B :> <<val(b[2])>>
                                         @@ G :> Rat(2 * val(b[2]), 5))

\* C5 witness: the call returned in the case of the stations A and B.
C5_Witness == pc = "done" /\ TwoStationCase

(***************************************************************************)
(* Claims on concat_meteo_items                                            *)
(***************************************************************************)
\* A file that could be fetched and read: the request and read_csv succeed
\* and the reference_timestamp column is there.
Succeeded(file) == file.ok /\ "reference_timestamp" \in file.header

\* The instant a timestamp text was written from, in either format.
WrittenFrom(text) ==
    CHOOSE i \in Instants : text = IsoText(i) \/ text = DmyText(i)
InEitherFormat(text) == text.fmt \in {"iso", "dmy"}

\* What is expected of the rows of the files that succeeded, in file order:
\* per row in either format, its timestamp and the values of its cells.
RECURSIVE ExpectedRows(_, _)
ExpectedRows(files, i) ==
    IF i > Len(files) THEN <<>>
    ELSE (IF ~Succeeded(files[i]) THEN <<>>
          ELSE LET rows == SelectSeq2(files[i].rows,
                              LAMBDA row : InEitherFormat(row.reference_timestamp), 1)
               IN  [r \in 1..Len(rows) |->
                      [t |-> TimeOf(WrittenFrom(rows[r].reference_timestamp)),
                       values |-> IF files[i].header \cap {"tre200h0", "rre150h0"} = {}
                                  THEN {} ELSE {rows[r].v}]])
         \o ExpectedRows(files, i + 1)

\* The rows of a table: per row its timestamp and the values of its cells.
RowsOf(df) ==
    [r \in 1..Len(df.rows) |->
        [t |-> df.rows[r].t,
         values |-> {df.rows[r].c[col] : col \in DOMAIN df.rows[r].c} \ {NaN}]]

\* The timestamp texts of the files that succeeded are all in one format.
OneFormat(files) ==
    \E format \in {"iso", "dmy"} :
        \A i \in 1..Len(files) : Succeeded(files[i]) =>
            \A r \in 1..Len(files[i].rows) :
                Matches(files[i].rows[r].reference_timestamp, format)

\* C9: a file that cannot be fetched or read never makes concat_meteo_items
\* raise (it raises only on the timestamps of the files it could read); the
\* result is the rows of the files that succeeded, in file order, and an
\* empty table when no file succeeded.
C9_FailedFilesAreSkipped ==
    pc # "idle" =>
        /\ OneFormat(fetched) => raised = "none"
        /\ raised = "none" => RowsOf(data) = ExpectedRows(fetched, 1)
        /\ (\A i \in 1..Len(fetched) : ~Succeeded(fetched[i])) =>
              (raised = "none" /\ data = EmptyFrame)

\* C9 witness: the call returned the rows of a file that follows a failed one.
C9_Witness ==
    /\ pc = "done"
    /\ Len(fetched) = 2
    /\ ~fetched[1].ok
    /\ Succeeded(fetched[2])
    /\ Len(data.rows) = 2

\* Some row of the files that succeeded is in the ISO format and some row
\* in the day-first format.
MixesFormats(files) ==
    \A format \in {"iso", "dmy"} :
        \E i \in 1..Len(files) : \E r \in 1..Len(files[i].rows) :
            Succeeded(files[i]) /\ files[i].rows[r].reference_timestamp.fmt = format

\* C10: when the rows of the files that succeeded mix the two formats, every
\* row in either format is parsed and kept, the rows in neither format are
\* dropped, and the call does not raise.
C10_MixedFormatsParsed ==
    (pc # "idle" /\ MixesFormats(fetched)) =>
        /\ raised = "none"
        /\ RowsOf(data) = ExpectedRows(fetched, 1)

(***************************************************************************)
(* SpecFetch: download_meteo_file on a station with two files in range     *)
(***************************************************************************)
\* A historical file of the decade before, whose range reaches into 2020.
HistOverlap == Key(<<"ogd-smn", "abo", "h", "historical">>, <<Num(2010), Num(2020)>>, ".csv")

\* The catalog of the station: two hourly historical files whose year ranges
\* both meet the requested window, in the order of the item's assets.
FetchKeys == <<HistOverlap, HistInRange>>

FetchHeader == {"reference_timestamp", "tre200h0"}

\* Each file fails or is a csv whose rows are in time order, one per instant;
\* the two files may cover the same instants, and the file listed first may
\* hold the later instants.
InitFetch ==
    /\ \E counts \in RowCounts(Len(FetchKeys), MaxRows) :
         \E ok \in [1..Len(FetchKeys) -> BOOLEAN], pandas2 \in BOOLEAN,
            txt \in [1..SumSeq(counts) -> {IsoText(i) : i \in Instants}] :
              /\ \A i \in 1..Len(FetchKeys) : ~ok[i] => counts[i] = 0
              /\ \A i \in 1..Len(FetchKeys) : \A r \in 1..(counts[i] - 1) :
                    LET first == SumSeq(SubSeq(counts, 1, i - 1)) IN
                    StrpIso(txt[first + r])[1] < StrpIso(txt[first + r + 1])[1]
              /\ assets = Remote("ok", FetchKeys,
                                 FileList(ok, [i \in 1..Len(FetchKeys) |-> FetchHeader],
                                          counts, txt),
                                 pandas2)
    /\ config \in {c \in LoadConfigs : ~c.global_meteo}
    /\ station_to_canton = <<>>
    /\ pc = "idle"
    /\ raised = "none"
    /\ nCalls = 0
    /\ netCalls = 0
    /\ meteo = <<>>
    /\ data = EmptyFrame
    /\ fetched = <<>>
    /\ selected = <<>>

\* One call of download_meteo_file for the station.
CallDownload ==
    /\ pc = "idle"
    /\ LET r == download_meteo_file(assets, config.start_date, config.end_date,
                                    config.freq) IN
         /\ raised' = r.err
         /\ data' = r.df
         /\ netCalls' = netCalls + r.calls
         /\ pc' = IF r.err = "none" THEN "done" ELSE "raised"
    /\ UNCHANGED <<station_to_canton, config, nCalls, meteo, assets, fetched, selected>>

NextFetch == CallDownload

SpecFetch == InitFetch /\ [][NextFetch]_vars

\* The rows of the station's files in file order that lie in the window.
RowsInWindow ==
    SelectSeq2(ExpectedRows(assets.content, 1),
               LAMBDA row : /\ StartOfDay(config.start_date) <= row.t
                            /\ row.t <= EndOfDay(config.end_date), 1)

\* C11: the index of the series download_meteo_file returns is strictly
\* increasing, without a duplicate timestamp, also when the station's files
\* overlap in time or are not listed in time order; of the rows of one
\* timestamp the series holds the one seen first.
C11_IndexStrictlyIncreasing ==
    pc = "done" =>
        /\ \A r \in 1..(Len(data.rows) - 1) : data.rows[r].t < data.rows[r + 1].t
        /\ \A r \in 1..Len(data.rows) :
              LET k == CHOOSE k \in 1..Len(RowsInWindow) :
                          /\ RowsInWindow[k].t = data.rows[r].t
                          /\ \A j \in 1..(k - 1) : RowsInWindow[j].t # data.rows[r].t
              IN  RowsOf(data)[r].values = RowsInWindow[k].values

(***************************************************************************)
(* Claims on the merged table of load_meteo_file                           *)
(***************************************************************************)
\* A series that is entirely empty: no row, no column, or no value in any
\* cell.
EntirelyEmpty(df) ==
    \/ IsEmpty(df)
    \/ \A r \in 1..Len(df.rows) : \A col \in DOMAIN df.rows[r].c : df.rows[r].c[col] = NaN

\* The merge has been run: every station is downloaded and the call has
\* returned or raised after the last download.
Merged == pc = "done" \/ RaisedInMerge

\* In a returned table no column is of a station whose series is empty.
NoColumnOfEmptyStation ==
    pc = "done" =>
        \A i \in 1..Len(meteo) : EntirelyEmpty(meteo[i]) =>
            \A col \in Range(data.columns) : col[2] # station_to_canton[i].station_id

\* In a returned table every column has a value in some row.
NoAllMissingColumn ==
    pc = "done" =>
        \A col \in Range(data.columns) :
            \E r \in 1..Len(data.rows) : data.rows[r].c[col] # NaN

\* When every station of a valid registry is empty the call returns the
\* empty table.
AllEmptyGivesEmptyTable ==
    (/\ Merged
     /\ ValidRegistry(station_to_canton)
     /\ \A i \in 1..Len(meteo) : EntirelyEmpty(meteo[i]))
        => (pc = "done" /\ IsEmpty(data))

\* C12: a station whose series is entirely empty contributes no column to the
\* merged table, no column of the returned table is missing in every row,
\* and when every station is empty the call returns an empty table instead
\* of raising.
C12_EmptyStationsContributeNothing ==
    /\ NoColumnOfEmptyStation
    /\ NoAllMissingColumn
    /\ AllEmptyGivesEmptyTable

\* C13: in a returned table a global cell of a variable at a timestamp where
\* no station reports a value of that variable is missing, and a global cell
\* that holds 0 is the sum of the weighted values that stations report there.
C13_GlobalMissingWhereNoStationReports ==
    pc = "done" =>
        \A r \in 1..Len(data.rows) : \A col \in GlobalColumns(data) :
            LET t == data.rows[r].t
                reporting == Reporting(col[1], t)
            IN  /\ reporting = {} => data.rows[r].c[col] = NaN
                /\ data.rows[r].c[col] = RatOfInt(0) =>
                      (reporting # {} /\ WeightedSum(reporting, col[1], t) = RatOfInt(0))

====
